---- MODULE Spec2Model ----
(***************************************************************************)
(* A model of the log analyser: ErrorAnalyzer (analyze, get_metrics and    *)
(* their helpers) and FileLogSource (connect, fetch_logs, close and the    *)
(* record parser).                                                         *)
(*                                                                         *)
(* Conventions.                                                            *)
(*  - A timestamp is an integer number of milliseconds since               *)
(*    2025-01-01 00:00:00.000 (datetime has finer resolution, but the      *)
(*    parsed text carries three fractional digits).                        *)
(*  - Python's None and pandas' NaN are both the value None; a present     *)
(*    value v is Some(v).                                                  *)
(*  - A float that the code obtains by a division is kept as the exact     *)
(*    reduced fraction [num, den].                                         *)
(*  - Strings are opaque to TLC, so every string whose inner structure     *)
(*    the code inspects is a structured value: an exception class path is  *)
(*    the sequence of its dot-separated identifiers, an identifier is      *)
(*    [stem, suffix], a file descriptor is [file, line].                   *)
(***************************************************************************)
EXTENDS Integers, Sequences, FiniteSets, TLC

VARIABLES
    records,           \* the caller's record collection (argument of analyze)
    analysis_results,  \* ErrorAnalyzer.analysis_results
    summary,           \* the table returned by the latest analyze call
    metrics,           \* the dict returned by the latest get_metrics call
    raised,            \* the exception the latest call ended with, or "none"
    last_op,           \* the latest call: "init", "analyze", "get_metrics"
    last_arg,          \* the argument of the latest analyze call
    prev_arg,          \* the argument of the analyze call before that
    prev_summary,      \* the table that call returned
    prev_outcome,      \* what get_metrics yielded (or would have) after that call
    files,             \* the file system: path -> file
    file_path,         \* FileLogSource.file_path
    encoding,          \* FileLogSource.encoding
    fetched,           \* the list returned by the latest call, if fetch_logs
    fetch_args,        \* the arguments of that fetch_logs call
    connect_args,      \* the arguments of the latest call, if connect
    connected          \* history: "never", "yes" since the latest connect that
                       \* succeeded, "closed" / "closed_again" since the
                       \* latest close (the second of two closes in a row)

analyzer_vars == <<analysis_results, summary, metrics, last_arg, prev_arg,
                   prev_summary, prev_outcome>>
source_vars == <<files, file_path, encoding, fetched, fetch_args, connect_args,
                 connected>>
vars == <<records, raised, last_op, analyzer_vars, source_vars>>

----------------------------------------------------------------------------
(* Values *)

None == [some |-> FALSE]
Some(v) == [some |-> TRUE, val |-> v]
IsSome(o) == o.some

Min2(a, b) == IF a <= b THEN a ELSE b

RECURSIVE GCD(_, _)
GCD(a, b) == IF b = 0 THEN a ELSE GCD(b, a % b)

\* The exact value of n / d (d > 0) as a reduced fraction.
Frac(n, d) == LET g == GCD(n, d) IN [num |-> n \div g, den |-> d \div g]

\* The strings the model compares for order, in code-point order (the order
\* pandas sorts group keys in).
StrOrder == <<"10", "20", "9", "A.java", "B.java", "Bar", "Foo", "Native Method",
              "OutOfMemory", "a", "http-1", "http-2", "java", "lang", "main", "org", "x">>
Rank(s) == CHOOSE i \in DOMAIN StrOrder : StrOrder[i] = s

MsPerSecond == 1000
MsPerHour == 3600000
MsPerDay == 86400000

----------------------------------------------------------------------------
(* LogEntry and the strings the analyzer takes apart *)

\* An identifier of a class path: stem followed by suffix ("Foo" "Exception").
Ident(stem, suffix) == [stem |-> stem, suffix |-> suffix]
Word(w) == Ident(w, "")

\* LogEntry.__init__ / to_dict: the fields the analysis reads, and
\* exception_message (set together with exception_type by the parser).
LogEntry(timestamp, level, thread, exception_type, exception_message, file_line) ==
    [timestamp |-> timestamp, level |-> level, thread |-> thread,
     exception_type |-> exception_type, exception_message |-> exception_message,
     file_line |-> file_line]

\* The four level tokens of the general grammar (the source spells them in
\* Korean; SEVERE is the token of the error grammars, level="..." at line 81).
LevelInfo == "INFO"
LevelWarn == "WARNING"
LevelError == "SEVERE"
LevelDebug == "DEBUG"

\* str.extract(r'([A-Za-z0-9]+Exception)') on one identifier: a match needs at
\* least one character before "Exception"; the captured text is the identifier.
IdentMatches(id) == id.suffix = "Exception" /\ id.stem # ""

\* str.extract on the whole class path: the FIRST match, scanning left to
\* right, or NaN when no identifier matches.
RECURSIVE ExtractCore(_)
ExtractCore(path) ==
    IF path = <<>> THEN None
    ELSE IF IdentMatches(Head(path)) THEN Some(Head(path).stem)
    ELSE ExtractCore(Tail(path))

\* str.extract(r'([^:]+):(\d+)') on a file descriptor [file, line]: line is
\* None when the text has no colon followed by digits ("Native Method"); then
\* both captured columns are NaN.
ExtractFilename(fl) == IF IsSome(fl.line) THEN Some(fl.file) ELSE None
ExtractLine(fl) == IF IsSome(fl.line) THEN fl.line ELSE None

\* pd.to_datetime(ts).dt.floor('H') and .dt.date
HourFloor(ts) == ts - (ts % MsPerHour)
DateOf(ts) == ts \div MsPerDay

\* One row of error_df (analyze, lines 25-34): the record's columns and the
\* four derived ones.
ErrorRow(e) ==
    [timestamp |-> e.timestamp, level |-> e.level, thread |-> e.thread,
     exception_type |-> e.exception_type, file_line |-> e.file_line,
     core_exception |-> ExtractCore(e.exception_type.val),
     filename |-> ExtractFilename(e.file_line.val),
     line |-> ExtractLine(e.file_line.val),
     hour |-> HourFloor(e.timestamp),
     date |-> DateOf(e.timestamp)]

\* df[df['exception_type'].notna()] with the derived columns.
ErrorDf(logs) ==
    LET err == SelectSeq(logs, LAMBDA e : IsSome(e.exception_type))
    IN [i \in 1..Len(err) |-> ErrorRow(err[i])]

----------------------------------------------------------------------------
(* groupby(...).size() *)

\* Lexicographic order on tuples of integers of one length.
RECURSIVE LexLess(_, _)
LexLess(a, b) ==
    IF a = <<>> THEN FALSE
    ELSE IF Head(a) # Head(b) THEN Head(a) < Head(b)
    ELSE LexLess(Tail(a), Tail(b))

\* The keys of S, a set of [code, key] with distinct codes, as a sequence
\* ascending by code.
RECURSIVE SortByCode(_)
SortByCode(S) ==
    IF S = {} THEN <<>>
    ELSE LET m == CHOOSE x \in S : \A y \in S \ {x} : LexLess(x.code, y.code)
         IN <<m.key>> \o SortByCode(S \ {m})

\* The sort position of a present string; NaN never reaches a sort.
RankS(o) == IF IsSome(o) THEN Rank(o.val) ELSE 0

\* A row's group key (the tuple of its key columns, as Option values) with
\* the integers that order it.
Keyed(key, code) == [key |-> key, code |-> code]
AllSome(key) == \A i \in 1..Len(key) : IsSome(key[i])

\* df.groupby(keys).size() on the rows' keys: one entry per distinct key,
\* ascending by key; rows with a NaN in any key column belong to no group
\* (dropna is the default).
GroupSize(keyed) ==
    LET kept == {keyed[i] : i \in {j \in 1..Len(keyed) : AllSome(keyed[j].key)}}
        order == SortByCode(kept)
    IN [i \in 1..Len(order) |->
          [key |-> order[i],
           count |-> Cardinality({j \in 1..Len(keyed) : keyed[j].key = order[i]})]]


----------------------------------------------------------------------------
(* ErrorAnalyzer._create_summary *)

\* One row of the concatenated table; a column a summary does not have is NaN.
SummaryRow(summary_type, filename, line, thread, time_bucket, exception, count) ==
    [summary_type |-> summary_type, filename |-> filename, line |-> line,
     thread |-> thread, time_bucket |-> time_bucket, exception |-> exception,
     count |-> count]

\* The key columns of the four groupings.
LocationKeys(df) ==
    [i \in 1..Len(df) |->
        Keyed(<<df[i].filename, df[i].line, df[i].core_exception>>,
              <<RankS(df[i].filename), RankS(df[i].line), RankS(df[i].core_exception)>>)]
HourKeys(df) ==
    [i \in 1..Len(df) |->
        Keyed(<<Some(df[i].hour), df[i].core_exception>>,
              <<df[i].hour, RankS(df[i].core_exception)>>)]
DateKeys(df) ==
    [i \in 1..Len(df) |->
        Keyed(<<Some(df[i].date), df[i].core_exception>>,
              <<df[i].date, RankS(df[i].core_exception)>>)]
ThreadKeys(df) ==
    [i \in 1..Len(df) |->
        Keyed(<<Some(df[i].thread), df[i].core_exception>>,
              <<Rank(df[i].thread), RankS(df[i].core_exception)>>)]

BasicSummary(error_df) ==
    LET g == GroupSize(LocationKeys(error_df))
    IN [i \in 1..Len(g) |->
          SummaryRow("by_location", g[i].key[1], g[i].key[2], None, None,
                     g[i].key[3].val, g[i].count)]

HourlySummary(error_df) ==
    LET g == GroupSize(HourKeys(error_df))
    IN [i \in 1..Len(g) |->
          SummaryRow("hourly", None, None, None, g[i].key[1],
                     g[i].key[2].val, g[i].count)]

DailySummary(error_df) ==
    LET g == GroupSize(DateKeys(error_df))
    IN [i \in 1..Len(g) |->
          SummaryRow("daily", None, None, None, g[i].key[1],
                     g[i].key[2].val, g[i].count)]

ThreadSummary(error_df) ==
    LET g == GroupSize(ThreadKeys(error_df))
    IN [i \in 1..Len(g) |->
          SummaryRow("by_thread", None, None, g[i].key[1], None,
                     g[i].key[2].val, g[i].count)]

\* pd.concat of the four summaries, in this order.
CreateSummary(error_df) ==
    BasicSummary(error_df) \o HourlySummary(error_df)
        \o DailySummary(error_df) \o ThreadSummary(error_df)

----------------------------------------------------------------------------
(* ErrorAnalyzer.get_metrics and its helpers *)

TopN == 10
BurstWindow == 10
BurstSpanSeconds == 60
RepeatThreshold == 5
PatternCap == 10

Head_(s, n) == SubSeq(s, 1, Min2(n, Len(s)))

RemoveAt(s, i) == SubSeq(s, 1, i - 1) \o SubSeq(s, i + 1, Len(s))

\* A sequence of [key, count] by descending count, entries of equal count
\* keeping their order.
RECURSIVE SortDescending(_)
SortDescending(s) ==
    IF s = <<>> THEN <<>>
    ELSE LET i == CHOOSE j \in 1..Len(s) :
                     /\ \A k \in 1..Len(s) : s[k].count <= s[j].count
                     /\ \A k \in 1..(j - 1) : s[k].count < s[j].count
         IN <<s[i]>> \o SortDescending(RemoveAt(s, i))

\* The distinct present values of a column, in order of first appearance.
RECURSIVE FirstSeen(_, _)
FirstSeen(col, seen) ==
    IF col = <<>> THEN <<>>
    ELSE IF ~IsSome(Head(col)) \/ Head(col) \in seen THEN FirstSeen(Tail(col), seen)
    ELSE <<Head(col)>> \o FirstSeen(Tail(col), seen \cup {Head(col)})

\* Series.value_counts(): a count per distinct present value, descending.
ValueCounts(col) ==
    LET keys == FirstSeen(col, {})
    IN SortDescending([i \in 1..Len(keys) |->
          [key |-> keys[i].val,
           count |-> Cardinality({j \in 1..Len(col) : col[j] = keys[i]})]])

CoreColumn(df) == [i \in 1..Len(df) |-> df[i].core_exception]
FilenameColumn(df) == [i \in 1..Len(df) |-> df[i].filename]
TimestampColumn(df) == [i \in 1..Len(df) |-> df[i].timestamp]
NUnique(col) == Cardinality({col[i] : i \in 1..Len(col)} \ {None})

TimestampsOf(df) == {df[i].timestamp : i \in 1..Len(df)}
MaxOf(S) == CHOOSE x \in S : \A y \in S : y <= x
MinOf(S) == CHOOSE x \in S : \A y \in S : x <= y

\* (df['timestamp'].max() - df['timestamp'].min()), in milliseconds.
TimeSpan(df) == MaxOf(TimestampsOf(df)) - MinOf(TimestampsOf(df))

\* Mutant: the span taken in minutes instead of hours.
ErrorRate_PerMinute(df) == Frac(Len(df) * 60 * MsPerSecond, TimeSpan(df))

\* len(df) / (span.total_seconds() / 3600): the division raises
\* ZeroDivisionError when the span is zero.
RateRaises(df) == TimeSpan(df) = 0

ErrorRate(df) == Frac(Len(df) * MsPerHour, TimeSpan(df))

FileKeys(df) ==
    [i \in 1..Len(df) |->
        Keyed(<<df[i].filename, df[i].line>>, <<RankS(df[i].filename), RankS(df[i].line)>>)]
TopErrors(df) == Head_(ValueCounts(CoreColumn(df)), TopN)
TopErrorLocations(df) == Head_(SortDescending(GroupSize(FileKeys(df))), TopN)

\* df['hour'] = pd.to_datetime(df['timestamp']).dt.floor('H'): df is the
\* stored table itself, so the assignment rewrites analysis_results.
WithHour(df) == [i \in 1..Len(df) |-> [df[i] EXCEPT !.hour = HourFloor(df[i].timestamp)]]

OnlyHourKeys(df) == [i \in 1..Len(df) |-> Keyed(<<Some(df[i].hour)>>, <<df[i].hour>>)]
\* idxmax / idxmin: the first bucket (ascending hour) holding the extreme.
CreateTimelineMetrics(df) ==
    LET hourly_counts == GroupSize(OnlyHourKeys(WithHour(df)))
        n == Len(hourly_counts)
        peak == CHOOSE j \in 1..n :
                    /\ \A k \in 1..n : hourly_counts[k].count <= hourly_counts[j].count
                    /\ \A k \in 1..(j - 1) : hourly_counts[k].count < hourly_counts[j].count
        quiet == CHOOSE j \in 1..n :
                    /\ \A k \in 1..n : hourly_counts[k].count >= hourly_counts[j].count
                    /\ \A k \in 1..(j - 1) : hourly_counts[k].count > hourly_counts[j].count
    IN [peak_hour |-> hourly_counts[peak].key[1].val,
        peak_hour_count |-> hourly_counts[peak].count,
        quiet_hour |-> hourly_counts[quiet].key[1].val,
        quiet_hour_count |-> hourly_counts[quiet].count,
        avg_errors_per_hour |-> Frac(Len(df), n)]

\* df.sort_values('timestamp'): the detector reads the timestamps only.
SortedTimestamps(df) == SortSeq(TimestampColumn(df), LAMBDA a, b : a < b)

\* range(len(df_sorted) - 10): the number of window starts examined.
WindowStarts(n) == n - BurstWindow

Burst(first, last) ==
    [type |-> "burst", start_time |-> first, end_time |-> last,
     count |-> BurstWindow, duration_ms |-> last - first]

\* Mutant: a window of exactly BurstSpanSeconds counts as a burst.
DetectBursts_UpTo(df) ==
    LET ts == SortedTimestamps(df)
        starts == [i \in 1..WindowStarts(Len(ts)) |-> i]
        hits == SelectSeq(starts, LAMBDA i :
                    ts[i + BurstWindow - 1] - ts[i] <= BurstSpanSeconds * MsPerSecond)
    IN [k \in 1..Len(hits) |-> Burst(ts[hits[k]], ts[hits[k] + BurstWindow - 1])]

\* Pattern 1: for each examined start i (1-based), the window i .. i+9.
DetectBursts(df) ==
    LET ts == SortedTimestamps(df)
        starts == [i \in 1..WindowStarts(Len(ts)) |-> i]
        hits == SelectSeq(starts, LAMBDA i :
                    ts[i + BurstWindow - 1] - ts[i] < BurstSpanSeconds * MsPerSecond)
    IN [k \in 1..Len(hits) |-> Burst(ts[hits[k]], ts[hits[k] + BurstWindow - 1])]

\* Mutant: a group of exactly RepeatThreshold records repeats too.
IsRepeating_AtLeast(count) == count >= RepeatThreshold

IsRepeating(count) == count > RepeatThreshold

Repeating(exception, file, line, count) ==
    [type |-> "repeating", exception |-> exception,
     location |-> [file |-> file, line |-> line], count |-> count]

PatternKey(r) == <<r.core_exception, r.filename, r.line>>
PatternKeysOf(df) ==
    [i \in 1..Len(df) |->
        Keyed(PatternKey(df[i]),
              <<RankS(df[i].core_exception), RankS(df[i].filename), RankS(df[i].line)>>)]
\* Pattern 2: the groups of (core_exception, filename, line), in key order.
DetectRepeating(df) ==
    LET error_groups == GroupSize(PatternKeysOf(df))
        repeating == SelectSeq(error_groups, LAMBDA g : IsRepeating(g.count))
    IN [k \in 1..Len(repeating) |->
          Repeating(repeating[k].key[1].val, repeating[k].key[2].val,
                    repeating[k].key[3].val, repeating[k].count)]

\* patterns[:10]
CapPatterns(patterns) == Head_(patterns, PatternCap)

\* Mutant: the repeating patterns appended before the bursts.
DetectPatterns_RepeatingFirst(df) == CapPatterns(DetectRepeating(df) \o DetectBursts(df))

DetectPatterns(df) == CapPatterns(DetectBursts(df) \o DetectRepeating(df))

\* The dict get_metrics builds (lines 100-109) when nothing raises.
MetricsOf(df) ==
    [total_errors |-> Len(df),
     unique_error_types |-> NUnique(CoreColumn(df)),
     affected_files |-> NUnique(FilenameColumn(df)),
     error_rate_per_hour |-> ErrorRate(df),
     top_errors |-> TopErrors(df),
     top_error_locations |-> TopErrorLocations(df),
     error_timeline |-> CreateTimelineMetrics(df),
     error_patterns |-> DetectPatterns(WithHour(df))]

\* return {} (line 96)
EmptyMetrics == <<>>

----------------------------------------------------------------------------
(* FileLogSource: the text of a log and the record parser *)

\* A log text is the sequence of its blocks: a block starts at a line that
\* begins with a timestamp and runs to the next such line. A block has the
\* timestamp text [day, mon, time], the level token, the thread tag, and the
\* causal chain its body holds: "none", "nested" (nested exception is <Type>:
\* <msg> ... at <location>(<file>)), "root" (with root cause <Type>: <msg> ...
\* at <location>(<file>)) or "both" (a nested exception clause followed by a
\* root cause clause and one stack trace); bad_bytes tells whether its body
\* holds a byte sequence that is invalid in the file's encoding.
Block(ts, level, thread, chain, nested_type, root_type, file, bad_bytes) ==
    [ts |-> ts, level |-> level, thread |-> thread, chain |-> chain,
     nested_type |-> nested_type, root_type |-> root_type, file |-> file,
     bad_bytes |-> bad_bytes]

TimestampText(day, mon, time) == [day |-> day, mon |-> mon, time |-> time]

\* month_map (lines 41-45): the month number of a token, None for any other.
MonthNames == <<"Jan", "Feb", "Mar", "Apr", "May", "Jun",
                "Jul", "Aug", "Sep", "Oct", "Nov", "Dec">>
MonthMap(mon) ==
    IF \E m \in DOMAIN MonthNames : MonthNames[m] = mon
    THEN Some(CHOOSE m \in DOMAIN MonthNames : MonthNames[m] = mon)
    ELSE None

\* The calendar of 2025, the year of every timestamp of the model.
DaysInMonth == <<31, 28, 31, 30, 31, 30, 31, 31, 30, 31, 30, 31>>
RECURSIVE DaysBefore(_)
DaysBefore(m) == IF m = 1 THEN 0 ELSE DaysBefore(m - 1) + DaysInMonth[m - 1]

\* self.month_map.get(date_parts[1], '01')
MonthOf(mon) == IF IsSome(MonthMap(mon)) THEN MonthMap(mon).val ELSE 1

\* _parse_timestamp: the datetime of a timestamp text, or None when strptime
\* raises ValueError (a day the month does not have). `time` is the time of
\* day in milliseconds, which the grammar's digit groups always supply.
ParseTimestamp(text) ==
    LET month == MonthOf(text.mon)
    IN IF text.day >= 1 /\ text.day <= DaysInMonth[month]
       THEN Some((DaysBefore(month) + text.day - 1) * MsPerDay + text.time)
       ELSE None

GeneralLevels == {LevelInfo, LevelWarn, LevelError, LevelDebug}

HasChain(block, variant) ==
    IF variant = "nested" THEN block.chain \in {"nested", "both"}
    ELSE block.chain \in {"root", "both"}

\* The first index at or after pos that satisfies the test, 0 if none.
FirstHead(content, pos) ==
    IF \E i \in pos..Len(content) : content[i].level = LevelError
    THEN CHOOSE i \in pos..Len(content) :
            /\ content[i].level = LevelError
            /\ \A k \in pos..(i - 1) : content[k].level # LevelError
    ELSE 0
FirstChain(content, pos, variant) ==
    IF \E j \in pos..Len(content) : HasChain(content[j], variant)
    THEN CHOOSE j \in pos..Len(content) :
            /\ HasChain(content[j], variant)
            /\ \A k \in pos..(j - 1) : ~HasChain(content[k], variant)
    ELSE 0

\* pattern.finditer(content) for one error pattern (lines 18-31). A match
\* starts at the first block at or after pos whose header carries the error
\* level; its lazy (?P<message>.*?) runs, with DOTALL across line breaks and
\* later headers, to the first causal-chain clause of the variant at or after
\* that header, and the match ends in that block's stack trace. The next
\* match is searched after it. When no clause follows a header, none follows
\* any later header either.
RECURSIVE ErrorMatches(_, _, _)
ErrorMatches(content, pos, variant) ==
    LET head == FirstHead(content, pos)
        tail == IF head = 0 THEN 0 ELSE FirstChain(content, head, variant)
    IN IF head = 0 \/ tail = 0 THEN <<>>
       ELSE <<[head |-> head, tail |-> tail]>>
                \o ErrorMatches(content, tail + 1, variant)

\* Mutant: an error entry that carries the warning level.
ErrorEntryOf_Warning(content, match, variant) ==
    LET head == content[match.head]
        tail == content[match.tail]
        timestamp == ParseTimestamp(head.ts)
    IN IF ~IsSome(timestamp) THEN None
       ELSE Some(LogEntry(timestamp.val, LevelWarn, head.thread,
                          Some(IF variant = "nested" THEN tail.nested_type
                               ELSE tail.root_type),
                          Some("msg"), Some(tail.file)))

\* The LogEntry of one error match (lines 78-90), None when the timestamp
\* does not parse (the except clause prints and goes on).
ErrorEntryOf(content, match, variant) ==
    LET head == content[match.head]
        tail == content[match.tail]
        timestamp == ParseTimestamp(head.ts)
    IN IF ~IsSome(timestamp) THEN None
       ELSE Some(LogEntry(timestamp.val, LevelError, head.thread,
                          Some(IF variant = "nested" THEN tail.nested_type
                               ELSE tail.root_type),
                          Some("msg"), Some(tail.file)))

RECURSIVE Present(_)
Present(options) ==
    IF options = <<>> THEN <<>>
    ELSE IF IsSome(Head(options)) THEN <<Head(options).val>> \o Present(Tail(options))
    ELSE Present(Tail(options))

ErrorEntries(content, variant) ==
    LET matches == ErrorMatches(content, 1, variant)
    IN Present([k \in 1..Len(matches) |-> ErrorEntryOf(content, matches[k], variant)])

\* Mutant: the level compared with a token that no header carries.
IsError_WrongToken(entries, timestamp, level) ==
    /\ level = "ERROR"
    /\ \E k \in 1..Len(entries) :
          entries[k].timestamp = timestamp /\ entries[k].level = level

\* Lines 102-105: a general match of the error level is skipped when an entry
\* collected so far has its timestamp and level.
IsError(entries, timestamp, level) ==
    /\ level = LevelError
    /\ \E k \in 1..Len(entries) :
          entries[k].timestamp = timestamp /\ entries[k].level = level

\* general_pattern.finditer(content) and the loop body (lines 96-121): one
\* match per block whose header carries one of the four level tokens, from
\* block pos on; entries is the list collected so far.
RECURSIVE GeneralPass(_, _, _)
GeneralPass(content, pos, entries) ==
    IF pos > Len(content) THEN entries
    ELSE LET block == content[pos]
             timestamp == ParseTimestamp(block.ts)
         IN IF block.level \notin GeneralLevels \/ ~IsSome(timestamp)
                \/ IsError(entries, timestamp.val, block.level)
            THEN GeneralPass(content, pos + 1, entries)
            ELSE GeneralPass(content, pos + 1,
                     Append(entries,
                            LogEntry(timestamp.val, block.level, block.thread,
                                     None, None, None)))

\* _extract_entries_from_content: the two error patterns in order, then the
\* general pattern.
ExtractEntries(content) ==
    GeneralPass(content, 1,
                ErrorEntries(content, "nested") \o ErrorEntries(content, "root"))

----------------------------------------------------------------------------
(* FileLogSource: files, connect, fetch_logs, close *)

\* A path is [stem, ext]; the file system maps the paths that exist to files.
Path(stem, ext) == [stem |-> stem, ext |-> ext]
TextFile(content) == [kind |-> "text", content |-> content]
Member(name, content) == [name |-> name, content |-> content]
ZipFile(members) == [kind |-> "zip", members |-> members]
NoFiles == <<>>

Encodings == {"utf-8", "cp949"}

\* Every file of the model was written in UTF-8. Read in another encoding,
\* the bytes of the level tokens INFO, SEVERE and DEBUG are invalid, and those
\* of any of the four decode to other characters.
InvalidIn(block, enc) ==
    \/ block.bad_bytes
    \/ enc # "utf-8" /\ block.level \in {LevelInfo, LevelError, LevelDebug}
DecodeBlock(block, enc) ==
    IF enc # "utf-8" /\ block.level \in GeneralLevels
    THEN [block EXCEPT !.level = "garbled", !.bad_bytes = FALSE]
    ELSE [block EXCEPT !.bad_bytes = FALSE]

\* open(path, "r", encoding=enc).read() raises on an invalid byte sequence;
\* bytes.decode(enc, errors="ignore") drops it.
StrictDecodeRaises(content, enc) == \E i \in 1..Len(content) : InvalidIn(content[i], enc)
Decode(content, enc) == [i \in 1..Len(content) |-> DecodeBlock(content[i], enc)]

\* The arguments of fetch_logs; a filter that is not supplied is None.
FetchArgs(start_time, end_time, level, exception_type, thread_pattern) ==
    [start_time |-> start_time, end_time |-> end_time, level |-> level,
     exception_type |-> exception_type, thread_pattern |-> thread_pattern]

\* re.compile(pattern).search(thread) for the patterns and threads of the
\* model: the pairs for which the pattern occurs in the thread name.
SearchHits == {<<"http", "http-1">>, <<"http", "http-2">>, <<"main", "main">>}
Searches(pattern, thread) == <<pattern, thread>> \in SearchHits

\* Mutant: the end bound exclusive.
Keep_ExclusiveEnd(e, args) ==
    /\ IsSome(args.start_time) => e.timestamp >= args.start_time.val
    /\ IsSome(args.end_time) => e.timestamp < args.end_time.val
    /\ IsSome(args.level) => e.level = args.level.val
    /\ IsSome(args.exception_type) => e.exception_type = args.exception_type
    /\ IsSome(args.thread_pattern) => Searches(args.thread_pattern.val, e.thread)

\* Lines 151-164: the filters, each applied when supplied.
Keep(e, args) ==
    /\ IsSome(args.start_time) => e.timestamp >= args.start_time.val
    /\ IsSome(args.end_time) => e.timestamp <= args.end_time.val
    /\ IsSome(args.level) => e.level = args.level.val
    /\ IsSome(args.exception_type) => e.exception_type = args.exception_type
    /\ IsSome(args.thread_pattern) => Searches(args.thread_pattern.val, e.thread)
ApplyFilters(entries, args) == SelectSeq(entries, LAMBDA e : Keep(e, args))

\* Mutant: one list of entries shared by the members, so that the duplicate
\* test of a member sees the records of the members before it.
RECURSIVE SharedEntries(_, _, _)
SharedEntries(members, enc, entries) ==
    IF members = <<>> THEN entries
    ELSE IF Head(members).name.ext = "log"
    THEN LET content == Decode(Head(members).content, enc)
         IN SharedEntries(Tail(members), enc,
                GeneralPass(content, 1,
                    entries \o ErrorEntries(content, "nested")
                            \o ErrorEntries(content, "root")))
    ELSE SharedEntries(Tail(members), enc, entries)
ZipEntries_SharedList(members, enc) == SharedEntries(members, enc, <<>>)

\* Mutant: every member parsed, whatever its name ends in.
RECURSIVE ZipEntries_EveryMember(_, _)
ZipEntries_EveryMember(members, enc) ==
    IF members = <<>> THEN <<>>
    ELSE ExtractEntries(Decode(Head(members).content, enc))
            \o ZipEntries_EveryMember(Tail(members), enc)

\* Lines 136-142: the members whose name ends in ".log", in namelist order,
\* each decoded with errors="ignore" and parsed; the lists concatenated.
RECURSIVE ZipEntries(_, _)
ZipEntries(members, enc) ==
    IF members = <<>> THEN <<>>
    ELSE (IF Head(members).name.ext = "log"
          THEN ExtractEntries(Decode(Head(members).content, enc))
          ELSE <<>>) \o ZipEntries(Tail(members), enc)

\* fetch_logs after the connection check: the exception it raises or the list
\* it returns.
FetchOutcome(file, path, enc, args) ==
    IF path.ext = "zip"
    THEN [raised |-> "none", value |-> ApplyFilters(ZipEntries(file.members, enc), args)]
    ELSE IF StrictDecodeRaises(file.content, enc)
    THEN [raised |-> "UnicodeDecodeError", value |-> <<>>]
    ELSE [raised |-> "none",
          value |-> ApplyFilters(ExtractEntries(Decode(file.content, enc)), args)]

----------------------------------------------------------------------------
(* The record collections the analyzer is run on *)

MaxLogs == 21      \* longest run of error records
MaxShort == 12     \* runs of every length up to this one are tried
MaxSplit == 7      \* longest leading part of a run that comes from the first site
MaxSmall == 2      \* longest collection over the full alphabet

\* Where an error is thrown: class path, file descriptor, thread.
Site(type, file, line, thread) ==
    [type |-> type, file_line |-> [file |-> file, line |-> line], thread |-> thread]
SiteA == Site(<<Word("org"), Word("x"), Ident("Foo", "Exception")>>, "A.java", Some("10"), "http-1")
SiteB == Site(<<Word("java"), Ident("Bar", "Exception")>>, "B.java", Some("20"), "http-2")
\* no identifier ending in Exception, no line number
SiteN == Site(<<Word("java"), Word("lang"), Ident("OutOfMemory", "Error")>>, "Native Method", None, "http-1")
\* two identifiers ending in Exception
SiteT == Site(<<Word("a"), Ident("Foo", "Exception"), Ident("Bar", "Exception")>>, "A.java", Some("9"), "main")

ErrorEntry(ts, site) ==
    LogEntry(ts, LevelError, site.thread, Some(site.type), Some("msg"), Some(site.file_line))
GeneralEntry(ts, level) == LogEntry(ts, level, "main", None, None, None)

BaseTime == 8 * MsPerHour
Steps == {5 * MsPerSecond, 7 * MsPerSecond}
Spans == {45 * MsPerSecond, 60 * MsPerSecond, 2 * MsPerHour}

\* A run of n error records: record i is (i - 1) * step after the first,
\* except the last, which is `span` after the first; the first `split`
\* records come from SiteA, the others from SiteB.
RunTime(i, n, step, span) ==
    IF i = n /\ n > 1 THEN BaseTime + span ELSE BaseTime + (i - 1) * step
Run(n, split, step, span) ==
    [i \in 1..n |-> ErrorEntry(RunTime(i, n, step, span),
                               IF i <= split THEN SiteA ELSE SiteB)]
Reverse(s) == [i \in 1..Len(s) |-> s[Len(s) + 1 - i]]

\* Every short length, and the lengths from the first one on which the
\* detector can find PatternCap bursts.
RunLengths == (0..MaxShort) \cup ((2 * BurstWindow)..MaxLogs)
Splits == {0} \cup (RepeatThreshold..MaxSplit)

RunCollections ==
    {Run(n, split, step, span) :
        n \in RunLengths, split \in Splits, step \in Steps, span \in Spans}

SmallAlphabet ==
    {ErrorEntry(t, site) : t \in {BaseTime, BaseTime + MsPerHour + 30 * MsPerSecond},
                           site \in {SiteA, SiteN, SiteT}}
    \cup {GeneralEntry(BaseTime, LevelInfo), GeneralEntry(BaseTime, LevelError)}

RECURSIVE SeqsUpTo(_, _)
SeqsUpTo(S, n) ==
    IF n = 0 THEN {<<>>}
    ELSE LET shorter == SeqsUpTo(S, n - 1)
         IN shorter \cup {Append(s, x) : s \in shorter, x \in S}

SmallCollections == SeqsUpTo(SmallAlphabet, MaxSmall)

\* A run in reverse order, or behind a general record, is a collection too.
Collections ==
    RunCollections \cup SmallCollections
    \cup {Reverse(r) : r \in {c \in RunCollections : Len(c) \in {10, 11}}}
    \cup {<<GeneralEntry(BaseTime, LevelInfo)>> \o r :
             r \in {c \in RunCollections : Len(c) \in {6, 11}}}

\* What the caller may pass to analyze: the collection, its records without
\* an exception (the outcome of a level filter), or nothing.
WithoutException(logs) == SelectSeq(logs, LAMBDA e : ~IsSome(e.exception_type))
Arguments(logs) == {logs, WithoutException(logs), <<>>}

----------------------------------------------------------------------------
(* ErrorAnalyzer: the state machine *)

\* The bundle with every key and zero or empty values.
ZeroMetrics ==
    [total_errors |-> 0, unique_error_types |-> 0, affected_files |-> 0,
     error_rate_per_hour |-> Frac(0, 1), top_errors |-> <<>>,
     top_error_locations |-> <<>>, error_timeline |-> <<>>, error_patterns |-> <<>>]

\* Mutant: a zero bundle instead of the empty dict when nothing is stored.
GetMetricsOutcome_ZeroBundle(results) ==
    IF ~IsSome(results)
        THEN [raised |-> "none", value |-> ZeroMetrics, results |-> results]
    ELSE IF RateRaises(results.val)
        THEN [raised |-> "ZeroDivisionError", value |-> EmptyMetrics, results |-> results]
    ELSE [raised |-> "none", value |-> MetricsOf(results.val),
          results |-> Some(WithHour(results.val))]

\* What get_metrics does on a stored table: the exception it ends with, the
\* dict it returns, the table it leaves behind.
GetMetricsOutcome(results) ==
    IF ~IsSome(results)
        THEN [raised |-> "none", value |-> EmptyMetrics, results |-> results]
    ELSE IF RateRaises(results.val)
        THEN [raised |-> "ZeroDivisionError", value |-> EmptyMetrics, results |-> results]
    ELSE [raised |-> "none", value |-> MetricsOf(results.val),
          results |-> Some(WithHour(results.val))]

\* What the caller observes of it.
Observed(outcome) == [raised |-> outcome.raised, value |-> outcome.value]

\* Mutant: the error records added to the stored table instead of replacing it.
AnalyzeOutcome_Accumulating(logs, results) ==
    LET error_df == ErrorDf(logs)
        total == IF IsSome(results) THEN results.val \o error_df ELSE error_df
    IN IF logs = <<>> THEN [results |-> results, value |-> <<>>]
       ELSE IF error_df = <<>> THEN [results |-> results, value |-> <<>>]
       ELSE [results |-> Some(total), value |-> CreateSummary(total)]

\* analyze, lines 18-42: the table it stores and the table it returns.
AnalyzeOutcome(logs, results) ==
    LET error_df == ErrorDf(logs)
    IN IF logs = <<>> THEN [results |-> results, value |-> <<>>]
       ELSE IF error_df = <<>> THEN [results |-> results, value |-> <<>>]
       ELSE [results |-> Some(error_df), value |-> CreateSummary(error_df)]

\* ErrorAnalyzer.__init__, and a collection for the caller.
Init ==
    /\ records \in Collections
    /\ analysis_results = None
    /\ summary = <<>>
    /\ metrics = EmptyMetrics
    /\ raised = "none"
    /\ last_op = "init"
    /\ last_arg = None
    /\ prev_arg = None
    /\ prev_summary = <<>>
    /\ prev_outcome = Observed(GetMetricsOutcome(None))
    /\ files = NoFiles
    /\ file_path = None
    /\ encoding = "utf-8"
    /\ fetched = <<>>
    /\ fetch_args = None
    /\ connect_args = None
    /\ connected = "never"

Analyze(logs) ==
    /\ LET outcome == AnalyzeOutcome(logs, analysis_results)
       IN /\ analysis_results' = outcome.results
          /\ summary' = outcome.value
    /\ metrics' = EmptyMetrics
    /\ raised' = "none"
    /\ last_op' = "analyze"
    /\ last_arg' = Some(logs)
    /\ prev_arg' = last_arg
    /\ prev_summary' = summary
    /\ prev_outcome' = Observed(GetMetricsOutcome(analysis_results))
    /\ UNCHANGED <<records, source_vars>>

GetMetrics ==
    LET outcome == GetMetricsOutcome(analysis_results)
    IN /\ analysis_results' = outcome.results
       /\ metrics' = outcome.value
       /\ raised' = outcome.raised
       /\ last_op' = "get_metrics"
       /\ UNCHANGED <<records, summary, last_arg, prev_arg, prev_summary, prev_outcome,
                      source_vars>>

Next ==
    \/ \E logs \in Arguments(records) : Analyze(logs)
    \/ GetMetrics

Spec == Init /\ [][Next]_vars

----------------------------------------------------------------------------
(* FileLogSource: the state machine *)

MaxBlocks == 3     \* longest log text over the core blocks
MaxSpecial == 2    \* longest log text over all blocks

TimeOne == 8 * MsPerHour + MsPerSecond
TimeTwo == 8 * MsPerHour + 2 * MsPerSecond
TextOne == TimestampText(10, "Jan", TimeOne)
TextTwo == TimestampText(10, "Jan", TimeTwo)
NoChain(ts, level, thread, bad_bytes) ==
    Block(ts, level, thread, "none", <<>>, <<>>, [file |-> "", line |-> None], bad_bytes)

CoreBlocks ==
    {Block(TextOne, LevelError, "http-1", "nested", SiteA.type, <<>>, SiteA.file_line, FALSE),
     Block(TextTwo, LevelError, "http-2", "root", <<>>, SiteB.type, SiteB.file_line, FALSE),
     NoChain(TextOne, LevelError, "main", FALSE),
     NoChain(TextOne, LevelInfo, "main", FALSE),
     NoChain(TextTwo, "NOTICE", "main", FALSE)}

SpecialBlocks ==
    {NoChain(TimestampText(99, "Jan", TimeTwo), LevelInfo, "main", FALSE),
     Block(TimestampText(10, "Xyz", TimeOne), LevelError, "http-2", "nested",
           SiteT.type, <<>>, SiteT.file_line, FALSE),
     NoChain(TextTwo, LevelWarn, "http-2", TRUE),
     Block(TextTwo, LevelError, "main", "both", SiteA.type, SiteB.type, SiteB.file_line, FALSE)}

Texts == SeqsUpTo(CoreBlocks, MaxBlocks) \cup SeqsUpTo(CoreBlocks \cup SpecialBlocks, MaxSpecial)

LogPath == Path("app", "log")
ZipPath == Path("logs", "zip")
GonePath == Path("gone", "log")
Paths == {LogPath, ZipPath, GonePath}

\* A text file, and an archive of two logs and a member that is no log.
FilesOf(content) ==
    (LogPath :> TextFile(content))
    @@ (ZipPath :> ZipFile(<<Member(Path("a", "log"), content),
                             Member(Path("notes", "txt"), content),
                             Member(Path("b", "log"), Reverse(content))>>))

NoFilter == FetchArgs(None, None, None, None, None)
\* The datetimes of the two timestamp texts, as the caller passes them.
StampOne == ParseTimestamp(TextOne).val
StampTwo == ParseTimestamp(TextTwo).val
FetchArguments ==
    {NoFilter,
     FetchArgs(Some(StampTwo), None, None, None, None),
     FetchArgs(None, Some(StampOne), None, None, None),
     FetchArgs(None, None, Some(LevelError), None, None),
     FetchArgs(None, None, None, Some(SiteA.type), None),
     FetchArgs(None, None, None, None, Some("http")),
     FetchArgs(None, None, Some(LevelError), None, Some("http")),
     FetchArgs(Some(StampOne), Some(StampTwo), Some(LevelError), Some(SiteB.type), Some("http"))}

\* FileLogSource.__init__, and a file system.
InitSource ==
    /\ files \in {FilesOf(content) : content \in Texts}
    /\ file_path = None
    /\ encoding = "utf-8"
    /\ fetched = <<>>
    /\ fetch_args = None
    /\ connect_args = None
    /\ connected = "never"
    /\ records = <<>>
    /\ raised = "none"
    /\ last_op = "init"
    /\ analysis_results = None
    /\ summary = <<>>
    /\ metrics = EmptyMetrics
    /\ last_arg = None
    /\ prev_arg = None
    /\ prev_summary = <<>>
    /\ prev_outcome = Observed(GetMetricsOutcome(None))

\* Mutant: the path and encoding stored before the existence test.
Connect_StoresFirst(path, enc) ==
    /\ last_op' = "connect"
    /\ fetched' = <<>>
    /\ fetch_args' = None
    /\ connect_args' = Some([file_path |-> path, encoding |-> enc])
    /\ file_path' = Some(path)
    /\ encoding' = enc
    /\ IF path \notin DOMAIN files
       THEN raised' = "FileNotFoundError" /\ UNCHANGED connected
       ELSE raised' = "none" /\ connected' = "yes"
    /\ UNCHANGED <<records, files, analyzer_vars>>

\* connect, lines 49-52
Connect(path, enc) ==
    /\ last_op' = "connect"
    /\ fetched' = <<>>
    /\ fetch_args' = None
    /\ connect_args' = Some([file_path |-> path, encoding |-> enc])
    /\ IF path \notin DOMAIN files
       THEN /\ raised' = "FileNotFoundError"
            /\ UNCHANGED <<file_path, encoding, connected>>
       ELSE /\ raised' = "none"
            /\ file_path' = Some(path)
            /\ encoding' = enc
            /\ connected' = "yes"
    /\ UNCHANGED <<records, files, analyzer_vars>>

\* fetch_logs, lines 130-166
FetchLogs(args) ==
    /\ last_op' = "fetch_logs"
    /\ fetch_args' = Some(args)
    /\ IF ~IsSome(file_path)
       THEN /\ raised' = "ValueError"
            /\ fetched' = <<>>
       ELSE LET outcome == FetchOutcome(files[file_path.val], file_path.val, encoding, args)
            IN /\ raised' = outcome.raised
               /\ fetched' = outcome.value
    /\ connect_args' = None
    /\ UNCHANGED <<records, files, file_path, encoding, connected, analyzer_vars>>

\* Mutant: close that keeps the path.
Close_KeepsPath ==
    /\ last_op' = "close"
    /\ raised' = "none"
    /\ fetched' = <<>>
    /\ fetch_args' = None
    /\ connect_args' = None
    /\ connected' = IF connected \in {"closed", "closed_again"}
                     THEN "closed_again" ELSE "closed"
    /\ UNCHANGED <<records, files, file_path, encoding, analyzer_vars>>

\* close, line 170
Close ==
    /\ last_op' = "close"
    /\ raised' = "none"
    /\ file_path' = None
    /\ fetched' = <<>>
    /\ fetch_args' = None
    /\ connect_args' = None
    /\ connected' = IF connected \in {"closed", "closed_again"}
                     THEN "closed_again" ELSE "closed"
    /\ UNCHANGED <<records, files, encoding, analyzer_vars>>

NextSource ==
    \/ \E path \in Paths, enc \in Encodings : Connect(path, enc)
    \/ \E args \in FetchArguments : FetchLogs(args)
    \/ Close

SpecSource == InitSource /\ [][NextSource]_vars

----------------------------------------------------------------------------
(* Properties of the analyzer *)

\* get_metrics has just returned a dict computed from a stored table.
MetricsComputed ==
    last_op = "get_metrics" /\ raised = "none" /\ IsSome(analysis_results)

MetricKeys ==
    {"total_errors", "unique_error_types", "affected_files", "error_rate_per_hour",
     "top_errors", "top_error_locations", "error_timeline", "error_patterns"}

\* The bursts of every window of BurstWindow records, the last one included.
BurstsOfAllWindows(df) ==
    LET ts == SortedTimestamps(df)
        starts == [i \in 1..(Len(ts) - BurstWindow + 1) |-> i]
        hits == SelectSeq(starts, LAMBDA i :
                    ts[i + BurstWindow - 1] - ts[i] < BurstSpanSeconds * MsPerSecond)
    IN [k \in 1..Len(hits) |-> Burst(ts[hits[k]], ts[hits[k] + BurstWindow - 1])]

\* C1 (as claimed): whenever get_metrics has computed its dict from an error
\* subset of at least 10 records, the bursts detected before the cap are one
\* per window start 0..n-10 whose span is under 60 seconds, so a subset of
\* exactly 10 records spanning 45 seconds has exactly one burst.
C1_BurstPerWindow ==
    (MetricsComputed /\ Len(analysis_results.val) >= BurstWindow)
        => DetectBursts(analysis_results.val) = BurstsOfAllWindows(analysis_results.val)

\* C2 (as claimed): when the stored error subset has fewer than 2 distinct
\* timestamps, get_metrics does not fail and reports error_rate_per_hour
\* equal to total_errors.
C2_RateGuarded ==
    (last_op = "get_metrics" /\ IsSome(analysis_results)
        /\ Cardinality(TimestampsOf(analysis_results.val)) < 2)
        => /\ raised = "none"
           /\ "error_rate_per_hour" \in DOMAIN metrics
           /\ metrics.error_rate_per_hour = Frac(Len(analysis_results.val), 1)

\* A bundle with no key, or with every count zero and every collection empty.
IsEmptyOrZero(m) ==
    \/ m = EmptyMetrics
    \/ /\ DOMAIN m = MetricKeys
       /\ m.total_errors = 0
       /\ m.unique_error_types = 0
       /\ m.affected_files = 0
       /\ m.top_errors = <<>>
       /\ m.top_error_locations = <<>>
       /\ m.error_patterns = <<>>

\* C3 (as claimed): get_metrics describes the most recent analyze call: when
\* that call received no records, or no record with an exception_type,
\* get_metrics returns the empty/zero bundle whatever earlier calls found.
C3_MetricsOfLatestAnalyze ==
    (last_op = "get_metrics" /\ IsSome(last_arg) /\ ErrorDf(last_arg.val) = <<>>)
        => raised = "none" /\ IsEmptyOrZero(metrics)

C5_Idempotent ==
    (IsSome(prev_arg) /\ prev_arg = last_arg)
        => /\ summary = prev_summary
           /\ Observed(GetMetricsOutcome(analysis_results)) = prev_outcome
           /\ last_op = "get_metrics"
                => [raised |-> raised, value |-> metrics] = prev_outcome

\* The same collection with error records analyzed twice, metrics read after.
C5_Witness ==
    /\ IsSome(prev_arg)
    /\ prev_arg = last_arg
    /\ MetricsComputed
    /\ summary # <<>>
    /\ metrics.total_errors > 1

\* C6: for a stored error subset whose extreme timestamps differ,
\* error_rate_per_hour is total_errors divided by the span in hours, that is
\* rate * span = total_errors * one hour (both sides divided by the common
\* divisor g of span and hour, to stay within TLC's integers); 20 records
\* spanning exactly 2 hours give 10.
C6_RatePerHour ==
    (MetricsComputed /\ TimeSpan(analysis_results.val) # 0)
        => LET df == analysis_results.val
               rate == metrics.error_rate_per_hour
               g == GCD(MsPerHour, TimeSpan(df))
           IN /\ rate.den > 0
              /\ rate.num * (TimeSpan(df) \div g) = Len(df) * (MsPerHour \div g) * rate.den
              /\ (Len(df) = 20 /\ TimeSpan(df) = 2 * MsPerHour)
                    => rate = [num |-> 10, den |-> 1]

\* 20 error records spanning exactly 2 hours, rate 10.
C6_Witness ==
    /\ MetricsComputed
    /\ Len(analysis_results.val) = 20
    /\ TimeSpan(analysis_results.val) = 2 * MsPerHour
    /\ metrics.error_rate_per_hour = [num |-> 10, den |-> 1]

\* The (core_exception, filename, line) keys of the rows that have all three.
PatternKeys(df) == {k \in {PatternKey(df[i]) : i \in 1..Len(df)} : AllSome(k)}
GroupCount(df, k) == Cardinality({i \in 1..Len(df) : PatternKey(df[i]) = k})
PatternsOfKey(patterns, k) ==
    {i \in 1..Len(patterns) :
        /\ patterns[i].exception = k[1].val
        /\ patterns[i].location = [file |-> k[2].val, line |-> k[3].val]}

\* C7: before the cap, each (core_exception, filename, line) group of more
\* than 5 records has exactly one repeating pattern, carrying the group's
\* size, a group of 5 or fewer has none, and every repeating pattern is the
\* pattern of such a group.
C7_RepeatingPerGroup ==
    MetricsComputed
        => LET df == analysis_results.val
               rep == DetectRepeating(df)
           IN /\ \A k \in PatternKeys(df) :
                    IF GroupCount(df, k) > 5
                    THEN /\ Cardinality(PatternsOfKey(rep, k)) = 1
                         /\ \A i \in PatternsOfKey(rep, k) :
                                rep[i].count = GroupCount(df, k)
                    ELSE PatternsOfKey(rep, k) = {}
              /\ \A i \in 1..Len(rep) :
                    /\ rep[i].type = "repeating"
                    /\ \E k \in PatternKeys(df) : i \in PatternsOfKey(rep, k)

\* A group of 6 (one pattern, count 6) beside a group of 5 (none).
C7_Witness ==
    /\ MetricsComputed
    /\ \E k \in PatternKeys(analysis_results.val) :
          /\ GroupCount(analysis_results.val, k) = 6
          /\ \E i \in PatternsOfKey(DetectRepeating(analysis_results.val), k) :
                DetectRepeating(analysis_results.val)[i].count = 6
    /\ \E k \in PatternKeys(analysis_results.val) :
          /\ GroupCount(analysis_results.val, k) = 5
          /\ PatternsOfKey(DetectRepeating(analysis_results.val), k) = {}

\* C8: error_patterns has at most 10 entries, its bursts precede its
\* repeating patterns, and it is the first 10 entries of all detected bursts
\* followed by all repeating patterns, so a repeating pattern is listed only
\* when fewer than 10 bursts were detected.
C8_CappedBurstsFirst ==
    MetricsComputed
        => LET p == metrics.error_patterns
               all == DetectBursts(analysis_results.val)
                         \o DetectRepeating(analysis_results.val)
           IN /\ Len(p) <= 10
              /\ Len(p) = Min2(10, Len(all))
              /\ \A i \in 1..Len(p) : p[i] = all[i]
              /\ \A i, j \in 1..Len(p) :
                    (i < j /\ p[j].type = "burst") => p[i].type = "burst"
              /\ (\E i \in 1..Len(p) : p[i].type = "repeating")
                    => Len(DetectBursts(analysis_results.val)) < 10

\* Ten or more bursts push every detected repeating pattern out of the list.
C8_Witness ==
    /\ MetricsComputed
    /\ Len(DetectBursts(analysis_results.val)) >= 10
    /\ Len(DetectRepeating(analysis_results.val)) >= 1
    /\ Len(metrics.error_patterns) = 10
    /\ \A i \in 1..10 : metrics.error_patterns[i].type = "burst"

----------------------------------------------------------------------------
(* Properties of the record parser *)

\* fetch_logs has just returned every record of the text file, unfiltered.
FetchedText ==
    /\ last_op = "fetch_logs"
    /\ raised = "none"
    /\ file_path = Some(LogPath)
    /\ fetch_args = Some(NoFilter)

\* The text the parser was given.
ParsedText == Decode(files[LogPath].content, encoding)

IsErrorRecord(e) == IsSome(e.exception_type)
IsGeneralRecord(e) ==
    ~IsSome(e.exception_type) /\ ~IsSome(e.exception_message) /\ ~IsSome(e.file_line)

\* C9: in the records parsed from one source, no general record of the
\* error level has the timestamp of an error-grammar record, and every
\* general-grammar match of another level is in the output (as many records
\* of a level and timestamp as the text has blocks of them).
C9_Deduplicated ==
    FetchedText
        => /\ \A i, j \in 1..Len(fetched) :
                (IsErrorRecord(fetched[i]) /\ ~IsErrorRecord(fetched[j])
                    /\ fetched[j].level = LevelError)
                    => fetched[j].timestamp # fetched[i].timestamp
           /\ \A b \in 1..Len(ParsedText) :
                (ParsedText[b].level \in GeneralLevels \ {LevelError}
                    /\ IsSome(ParseTimestamp(ParsedText[b].ts)))
                    => Cardinality({i \in 1..Len(fetched) :
                            /\ IsGeneralRecord(fetched[i])
                            /\ fetched[i].level = ParsedText[b].level
                            /\ fetched[i].timestamp = ParseTimestamp(ParsedText[b].ts).val})
                       = Cardinality({c \in 1..Len(ParsedText) :
                            /\ ParsedText[c].level = ParsedText[b].level
                            /\ ParseTimestamp(ParsedText[c].ts) = ParseTimestamp(ParsedText[b].ts)})

\* An error-grammar record, a dropped error-level line and a kept INFO line,
\* all of one timestamp.
C9_Witness ==
    /\ FetchedText
    /\ \E i, j \in 1..Len(fetched) :
          /\ IsErrorRecord(fetched[i])
          /\ IsGeneralRecord(fetched[j])
          /\ fetched[j].level = LevelInfo
          /\ fetched[j].timestamp = fetched[i].timestamp
          /\ \E b \in 1..Len(ParsedText) :
                /\ ParsedText[b].level = LevelError
                /\ ParsedText[b].chain = "none"
                /\ ParseTimestamp(ParsedText[b].ts) = Some(fetched[i].timestamp)

\* A well-formed timestamp text: a month name and a day of that month.
WellFormedTimestamp(text) == IsSome(MonthMap(text.mon)) /\ IsSome(ParseTimestamp(text))
IsErrorBlock(block) ==
    /\ block.level = LevelError
    /\ block.chain \in {"nested", "root"}
    /\ WellFormedTimestamp(block.ts)
IsGeneralLine(block) ==
    /\ block.level \in GeneralLevels \ {LevelError}
    /\ block.chain = "none"
    /\ WellFormedTimestamp(block.ts)
\* k error blocks of distinct timestamps and m general lines, nothing else.
WellFormedText(content) ==
    /\ \A b \in 1..Len(content) : IsErrorBlock(content[b]) \/ IsGeneralLine(content[b])
    /\ \A b, c \in 1..Len(content) :
          (b # c /\ IsErrorBlock(content[b]) /\ IsErrorBlock(content[c]))
              => ParseTimestamp(content[b].ts) # ParseTimestamp(content[c].ts)
BlockType(block) == IF block.chain = "nested" THEN block.nested_type ELSE block.root_type

\* C10 (as claimed): a text of k well-formed error blocks with distinct
\* timestamps and m general lines of non-error level parses to exactly k + m
\* records: one record per error block with that block's timestamp,
\* exception_type and file_line, m records without exception fields, and no
\* general record of the error level.
C10_ErrorBlocksAndGeneralLines ==
    (FetchedText /\ encoding = "utf-8" /\ WellFormedText(files[LogPath].content))
        => LET content == files[LogPath].content
               errors == {b \in 1..Len(content) : IsErrorBlock(content[b])}
               general == {b \in 1..Len(content) : IsGeneralLine(content[b])}
           IN /\ Len(fetched) = Cardinality(errors) + Cardinality(general)
              /\ Cardinality({i \in 1..Len(fetched) : IsErrorRecord(fetched[i])})
                    = Cardinality(errors)
              /\ \A b \in errors :
                    \E i \in 1..Len(fetched) :
                        /\ fetched[i].timestamp = ParseTimestamp(content[b].ts).val
                        /\ fetched[i].exception_type = Some(BlockType(content[b]))
                        /\ fetched[i].file_line = Some(content[b].file)
              /\ Cardinality({i \in 1..Len(fetched) : IsGeneralRecord(fetched[i])})
                    = Cardinality(general)
              /\ \A i \in 1..Len(fetched) :
                    IsGeneralRecord(fetched[i]) => fetched[i].level # LevelError

----------------------------------------------------------------------------
(* Properties of fetch_logs, connect and close *)

\* fetch_logs has just returned a list.
Fetched == last_op = "fetch_logs" /\ raised = "none"

\* The records parsed from the connected file, before any filter.
ParsedRecords ==
    IF file_path.val.ext = "zip"
    THEN ZipEntries(files[file_path.val].members, encoding)
    ELSE ExtractEntries(Decode(files[file_path.val].content, encoding))

\* A record passes every filter that was supplied.
Satisfies(e, args) ==
    /\ (args.start_time = None \/ e.timestamp >= args.start_time.val)
    /\ (args.end_time = None \/ e.timestamp <= args.end_time.val)
    /\ (args.level = None \/ e.level = args.level.val)
    /\ (args.exception_type = None
            \/ (IsSome(e.exception_type) /\ e.exception_type.val = args.exception_type.val))
    /\ (args.thread_pattern = None \/ <<args.thread_pattern.val, e.thread>> \in SearchHits)

\* C11: the list fetch_logs returns is the subsequence of the parsed records
\* that pass every supplied filter (time bounds inclusive), in their original
\* relative order: its k-th record is the k-th passing record of the parse.
C11_FilteredSubsequence ==
    Fetched
        => LET parsed == ParsedRecords
               kept == {i \in 1..Len(parsed) : Satisfies(parsed[i], fetch_args.val)}
           IN /\ Len(fetched) = Cardinality(kept)
              /\ \A k \in 1..Len(fetched) :
                    \E i \in kept :
                        /\ fetched[k] = parsed[i]
                        /\ Cardinality({j \in kept : j < i}) = k - 1
              /\ fetch_args.val = NoFilter => fetched = parsed

\* A level filter and a thread pattern together keep several records and
\* reject another; the end bound keeps a record stamped exactly at the bound.
C11_Witness ==
    /\ Fetched
    /\ IsSome(fetch_args.val.level)
    /\ IsSome(fetch_args.val.thread_pattern)
    /\ IsSome(fetch_args.val.end_time)
    /\ Len(fetched) >= 2
    /\ Len(fetched) < Len(ParsedRecords)
    /\ \E k \in 1..Len(fetched) : fetched[k].timestamp = fetch_args.val.end_time.val
    /\ \E k \in 1..Len(fetched) : fetched[k].timestamp = fetch_args.val.start_time.val

\* C12: a fetch_logs call raises ValueError exactly when no connect has
\* succeeded since construction or since the latest close, so a fetch after a
\* successful connect with no close in between never fails for lack of a
\* connection; close never raises and leaves the source unconnected, also
\* when it follows another close.
C12_Lifecycle ==
    /\ last_op = "fetch_logs" => (raised = "ValueError" <=> connected # "yes")
    /\ last_op = "close" => (raised = "none" /\ ~IsSome(file_path))
    /\ connected \in {"closed", "closed_again"} => ~IsSome(file_path)
    /\ connected = "yes" => IsSome(file_path)

\* A source that was connected with another encoding, closed twice in a row
\* and then asked for its records.
C12_Witness ==
    /\ last_op = "fetch_logs"
    /\ raised = "ValueError"
    /\ connected = "closed_again"
    /\ encoding = "cp949"

\* C13: every connect call on a path that does not exist raises
\* FileNotFoundError and changes neither the stored path nor the stored
\* encoding: a source that was never connected stays unconnected and a
\* connected one stays connected to the file it had.
C13_FailedConnectKeepsState ==
    [][(last_op' = "connect" /\ connect_args'.val.file_path \notin DOMAIN files)
          => /\ raised' = "FileNotFoundError"
             /\ file_path' = file_path
             /\ encoding' = encoding
             /\ connected' = connected
             /\ files' = files]_vars

\* A source connected to the archive as cp949 after a connect to a missing
\* path, with utf-8, has failed.
C13_Witness ==
    /\ last_op = "connect"
    /\ raised = "FileNotFoundError"
    /\ connect_args = Some([file_path |-> GonePath, encoding |-> "utf-8"])
    /\ file_path = Some(ZipPath)
    /\ encoding = "cp949"
    /\ connected = "yes"

\* C14 (as claimed): decoding never fails: a fetch_logs call on a connected
\* source, a single text file as well as an archive, does not raise when the
\* text holds a byte sequence that is invalid in the configured encoding, and
\* without filters it returns the records of the decoded text.
C14_DecodingNeverFails ==
    (last_op = "fetch_logs" /\ IsSome(file_path))
        => /\ raised = "none"
           /\ fetch_args = Some(NoFilter) => fetched = ParsedRecords

\* The records of one archive member, parsed on its own.
MemberRecords(member) == ExtractEntries(Decode(member.content, encoding))

RECURSIVE ConcatRecords(_)
ConcatRecords(members) ==
    IF members = <<>> THEN <<>>
    ELSE MemberRecords(Head(members)) \o ConcatRecords(Tail(members))

\* C15: for an archive, the unfiltered result of fetch_logs is the
\* concatenation, in the archive's listing order, of the record lists of the
\* members whose name ends in ".log"; no other member contributes a record.
C15_ArchiveMembers ==
    (Fetched /\ file_path = Some(ZipPath) /\ fetch_args = Some(NoFilter))
        => LET members == files[ZipPath].members
               logs == SelectSeq(members, LAMBDA m : m.name.ext = "log")
           IN /\ fetched = ConcatRecords(logs)
              /\ Len(fetched) <= Len(ConcatRecords(members))

\* An archive of two logs with different record lists and a member of
\* another suffix whose text would parse to records.
C15_Witness ==
    /\ Fetched
    /\ file_path = Some(ZipPath)
    /\ fetch_args = Some(NoFilter)
    /\ LET members == files[ZipPath].members
       IN /\ \E i, j, k \in 1..Len(members) :
                /\ i < j /\ j < k
                /\ members[i].name.ext = "log"
                /\ members[j].name.ext # "log"
                /\ members[k].name.ext = "log"
                /\ MemberRecords(members[i]) # <<>>
                /\ MemberRecords(members[j]) # <<>>
                /\ MemberRecords(members[k]) # MemberRecords(members[i])
                /\ fetched = MemberRecords(members[i]) \o MemberRecords(members[k])
                /\ fetched # MemberRecords(members[k]) \o MemberRecords(members[i])

\* C16 (as claimed): a grammar match whose timestamp text does not parse (a
\* month token outside the twelve month names, or a day the month does not
\* have) produces no record, so every record of the parse has the datetime
\* and thread of a header whose timestamp text is well formed; and every
\* general line of a non-error level whose timestamp is well formed still
\* has its record.
C16_UnparsableDropped ==
    (FetchedText /\ encoding = "utf-8")
        => LET content == files[LogPath].content
           IN /\ \A k \in 1..Len(fetched) :
                    \E b \in 1..Len(content) :
                        /\ WellFormedTimestamp(content[b].ts)
                        /\ ParseTimestamp(content[b].ts) = Some(fetched[k].timestamp)
                        /\ content[b].thread = fetched[k].thread
              /\ \A b \in 1..Len(content) :
                    (content[b].level \in GeneralLevels \ {LevelError}
                        /\ WellFormedTimestamp(content[b].ts))
                    => \E k \in 1..Len(fetched) :
                          /\ fetched[k].level = content[b].level
                          /\ fetched[k].timestamp = ParseTimestamp(content[b].ts).val

\* The number of records the two error grammars contribute to the parse of
\* the text file; the records after them come from the general grammar.
ErrorGrammarCount ==
    Len(ErrorEntries(ParsedText, "nested")) + Len(ErrorEntries(ParsedText, "root"))

\* C17: in every record fetch_logs returns, from a text file or an archive
\* and under any filter, a set exception_type, exception_message or file_line
\* implies the error level, and a record is either an error-grammar record
\* with its exception_type set or has all three fields unset; in the parse of
\* a text file the records of the general grammar all have the three unset.
C17_ExceptionFieldsImplyError ==
    Fetched
        => /\ \A k \in 1..Len(fetched) :
                /\ (IsSome(fetched[k].exception_type)
                        \/ IsSome(fetched[k].exception_message)
                        \/ IsSome(fetched[k].file_line))
                    => fetched[k].level = LevelError
                /\ IsErrorRecord(fetched[k]) \/ IsGeneralRecord(fetched[k])
           /\ FetchedText
                => \A k \in 1..Len(fetched) :
                      IF k <= ErrorGrammarCount
                      THEN IsErrorRecord(fetched[k]) /\ fetched[k].level = LevelError
                      ELSE IsGeneralRecord(fetched[k])

\* A parse with an error-grammar record, a general record of the error level
\* (which has no exception field) and a general record of another level.
C17_Witness ==
    /\ FetchedText
    /\ ErrorGrammarCount >= 1
    /\ \E i, j, k \in 1..Len(fetched) :
          /\ IsErrorRecord(fetched[i]) /\ IsSome(fetched[i].file_line)
          /\ IsGeneralRecord(fetched[j]) /\ fetched[j].level = LevelError
          /\ IsGeneralRecord(fetched[k]) /\ fetched[k].level = LevelInfo

----------------------------------------------------------------------------
(* Properties of the summary table and the rankings *)

SummaryTypes == {"by_location", "hourly", "daily", "by_thread"}

RECURSIVE SumCounts(_)
SumCounts(rows) == IF rows = <<>> THEN 0 ELSE Head(rows).count + SumCounts(Tail(rows))

RowsOfType(table, t) == SelectSeq(table, LAMBDA r : r.summary_type = t)

\* C18 (as claimed): the table analyze returns is the exact histogram of the
\* error subset in each of the four dimensions: the counts of each
\* summary_type sum to the number of records with an exception_type, also
\* when a record's exception type holds no identifier ending in Exception or
\* its file_line has no line number.
C18_ExactHistogram ==
    (last_op = "analyze" /\ IsSome(last_arg) /\ ErrorDf(last_arg.val) # <<>>)
        => \A t \in SummaryTypes :
              SumCounts(RowsOfType(summary, t)) = Len(ErrorDf(last_arg.val))

\* The keys of a column (a sequence of Some(key) or None), the number of rows
\* of a key and the row a key first appears in.
KeysOf(col) == {col[i] : i \in 1..Len(col)} \ {None}
CountOf(col, k) == Cardinality({i \in 1..Len(col) : col[i] = k})
FirstRowOf(col, k) == CHOOSE i \in 1..Len(col) : col[i] = k /\ \A j \in 1..(i - 1) : col[j] # k

\* Key a ranks before key b: a higher count, or an equal count and an
\* earlier first record.
RanksBefore(col, a, b) ==
    \/ CountOf(col, a) > CountOf(col, b)
    \/ CountOf(col, a) = CountOf(col, b) /\ FirstRowOf(col, a) < FirstRowOf(col, b)

\* top (a sequence of [key, count], key as in the column) is the first 10 of
\* the keys of the column in that ranking.
IsTopTen(top, col) ==
    /\ Len(top) = Min2(10, Cardinality(KeysOf(col)))
    /\ \A i \in 1..Len(top) :
          top[i].key \in KeysOf(col) /\ top[i].count = CountOf(col, top[i].key)
    /\ \A i, j \in 1..Len(top) : i < j => RanksBefore(col, top[i].key, top[j].key)
    /\ \A k \in KeysOf(col) \ {top[i].key : i \in 1..Len(top)} :
          \A i \in 1..Len(top) : RanksBefore(col, top[i].key, k)

\* The (filename, line) of each row, None when either is missing.
LocationColumn(df) ==
    [i \in 1..Len(df) |->
        IF IsSome(df[i].filename) /\ IsSome(df[i].line)
        THEN Some(<<df[i].filename.val, df[i].line.val>>) ELSE None]

TopErrorsRanked ==
    IsTopTen([i \in 1..Len(metrics.top_errors) |->
                 [key |-> Some(metrics.top_errors[i].key),
                  count |-> metrics.top_errors[i].count]],
             CoreColumn(analysis_results.val))

TopLocationsRanked ==
    IsTopTen([i \in 1..Len(metrics.top_error_locations) |->
                 [key |-> Some(<<metrics.top_error_locations[i].key[1].val,
                                 metrics.top_error_locations[i].key[2].val>>),
                  count |-> metrics.top_error_locations[i].count]],
             LocationColumn(analysis_results.val))

\* C19 (as claimed): top_errors and top_error_locations are the (at most) 10
\* keys of highest count, core exception respectively (filename, line), by
\* descending count, keys of equal count in the order of their first record
\* in the analyzed collection.
C19_TopTenFirstSeen ==
    MetricsComputed => TopErrorsRanked /\ TopLocationsRanked

\* C20 (as claimed): every record fetch_logs returns carries as its origin
\* the name of the file or archive member it was parsed from: the records of
\* a text file name that file, and in the unfiltered result for an archive
\* the records of each log member name that member.
C20_OriginOfRecord ==
    (Fetched /\ fetch_args = Some(NoFilter))
        => /\ \A k \in 1..Len(fetched) : "origin" \in DOMAIN fetched[k]
           /\ file_path = Some(LogPath)
                => \A k \in 1..Len(fetched) :
                      "origin" \in DOMAIN fetched[k] /\ fetched[k].origin = LogPath
           /\ file_path = Some(ZipPath)
                => LET logs == SelectSeq(files[ZipPath].members,
                                         LAMBDA m : m.name.ext = "log")
                   IN \A n \in 1..Len(logs) :
                         \A k \in 1..Len(MemberRecords(logs[n])) :
                            LET at == Len(ConcatRecords(SubSeq(logs, 1, n - 1))) + k
                            IN /\ "origin" \in DOMAIN fetched[at]
                               /\ fetched[at].origin = logs[n].name

----------------------------------------------------------------------------
(* Properties of the pattern detector, the grammars and the core exception *)

\* The window starts the detector examines whose window spans exactly 60 s.
MinuteWindows(df) ==
    LET ts == SortedTimestamps(df)
    IN {i \in 1..WindowStarts(Len(ts)) : ts[i + 9] - ts[i] = 60 * MsPerSecond}

IsSoundBurst(b, df) ==
    LET ts == SortedTimestamps(df)
    IN /\ b.count = 10
       /\ b.start_time <= b.end_time
       /\ b.duration_ms = b.end_time - b.start_time
       /\ b.duration_ms < 60 * MsPerSecond
       /\ \E i \in 1..(Len(ts) - 9) : ts[i] = b.start_time /\ ts[i + 9] = b.end_time

\* C21: every burst the detector emits, and every burst listed in
\* error_patterns, has count 10, start_time <= end_time and a duration equal
\* to end_time - start_time (held in milliseconds) that is below 60 seconds
\* and is the span of a window of 10 records; a collection whose windows all
\* span 60 seconds or more, such as 10 records spanning exactly 60 seconds,
\* yields no burst.
C21_NoBurstAtSixtySeconds ==
    MetricsComputed
        => LET df == analysis_results.val
               ts == SortedTimestamps(df)
               bursts == DetectBursts(df)
           IN /\ \A k \in 1..Len(bursts) : IsSoundBurst(bursts[k], df)
              /\ \A k \in 1..Len(metrics.error_patterns) :
                    metrics.error_patterns[k].type = "burst"
                        => IsSoundBurst(metrics.error_patterns[k], df)
              /\ (\A i \in 1..(Len(ts) - 9) : ts[i + 9] - ts[i] >= 60 * MsPerSecond)
                    => bursts = <<>>
              /\ Len(bursts) <= Cardinality({i \in 1..(Len(ts) - 9) :
                                               ts[i + 9] - ts[i] < 60 * MsPerSecond})

\* An examined window of exactly 60 seconds beside windows of 56 seconds:
\* bursts are listed, none of them for the 60-second window.
C21_Witness ==
    /\ MetricsComputed
    /\ MinuteWindows(analysis_results.val) # {}
    /\ Len(DetectBursts(analysis_results.val)) >= 1
    /\ \E k \in 1..Len(metrics.error_patterns) : metrics.error_patterns[k].type = "burst"

\* The block holds a causal chain that names the record's exception and file.
HoldsChainOf(block, e) ==
    /\ block.chain # "none"
    /\ e.file_line = Some(block.file)
    /\ \/ block.chain \in {"nested", "both"} /\ e.exception_type = Some(block.nested_type)
       \/ block.chain \in {"root", "both"} /\ e.exception_type = Some(block.root_type)

\* C22 (as claimed): an error-grammar record takes its timestamp and thread
\* from the log line that holds its causal chain: every record with an
\* exception_type has the datetime and thread of an error-level block whose
\* own body holds the chain with that exception and file, so an error line
\* without a chain never lends its timestamp to a later block's exception.
C22_MatchWithinOneBlock ==
    (FetchedText /\ encoding = "utf-8")
        => LET content == files[LogPath].content
           IN \A k \in 1..Len(fetched) :
                 IsErrorRecord(fetched[k])
                    => \E b \in 1..Len(content) :
                          /\ content[b].level = LevelError
                          /\ ParseTimestamp(content[b].ts) = Some(fetched[k].timestamp)
                          /\ content[b].thread = fetched[k].thread
                          /\ HoldsChainOf(content[b], fetched[k])

\* C23 (as claimed): a general-grammar match of the error level is discarded
\* only when an error-grammar record of its timestamp exists: for every
\* error-level block whose datetime no record with an exception_type has,
\* the output holds as many general error-level records of that datetime as
\* the text has error-level blocks of it.
C23_DiscardOnlyForErrorRecord ==
    (FetchedText /\ encoding = "utf-8")
        => LET content == files[LogPath].content
           IN \A b \in 1..Len(content) :
                 (/\ content[b].level = LevelError
                  /\ IsSome(ParseTimestamp(content[b].ts))
                  /\ \A k \in 1..Len(fetched) :
                        IsErrorRecord(fetched[k])
                            => fetched[k].timestamp # ParseTimestamp(content[b].ts).val)
                 => Cardinality({k \in 1..Len(fetched) :
                        /\ IsGeneralRecord(fetched[k])
                        /\ fetched[k].level = LevelError
                        /\ fetched[k].timestamp = ParseTimestamp(content[b].ts).val})
                    = Cardinality({c \in 1..Len(content) :
                        /\ content[c].level = LevelError
                        /\ ParseTimestamp(content[c].ts) = ParseTimestamp(content[b].ts)})

\* The log members of the archive, and the part of the fetched list that
\* belongs to the n-th of them.
LogMembers == SelectSeq(files[ZipPath].members, LAMBDA m : m.name.ext = "log")
SliceOf(n) ==
    LET before == Len(ConcatRecords(SubSeq(LogMembers, 1, n - 1)))
    IN SubSeq(fetched, before + 1, before + Len(MemberRecords(LogMembers[n])))

\* fetch_logs has just returned every record of the archive, unfiltered.
FetchedArchive == Fetched /\ file_path = Some(ZipPath) /\ fetch_args = Some(NoFilter)

\* C24: archive members are parsed independently: the part of the result
\* that belongs to a member is the parse of that member's text alone; an
\* error-level line of a member whose datetime no error-grammar record of the
\* same member has keeps a general record in that part, whatever the other
\* members hold; and the archive listed in the opposite order yields the same
\* per-member lists, merged in that order.
C24_MembersIndependent ==
    FetchedArchive
        => /\ Len(fetched) = Len(ConcatRecords(LogMembers))
           /\ \A n \in 1..Len(LogMembers) :
                LET text == Decode(LogMembers[n].content, encoding)
                    part == SliceOf(n)
                IN /\ part = ExtractEntries(text)
                   /\ \A b \in 1..Len(text) :
                        (/\ text[b].level = LevelError
                         /\ IsSome(ParseTimestamp(text[b].ts))
                         /\ \A k \in 1..Len(part) :
                               IsErrorRecord(part[k])
                                  => part[k].timestamp # ParseTimestamp(text[b].ts).val)
                        => \E k \in 1..Len(part) :
                              /\ IsGeneralRecord(part[k])
                              /\ part[k].level = LevelError
                              /\ part[k].timestamp = ParseTimestamp(text[b].ts).val
           /\ ZipEntries(Reverse(files[ZipPath].members), encoding)
                 = ConcatRecords(Reverse(LogMembers))

\* A member keeps its general error-level record although another member has
\* an error-grammar record of the same datetime.
C24_Witness ==
    /\ FetchedArchive
    /\ \E n, o \in 1..Len(LogMembers) :
          /\ n # o
          /\ \E k \in 1..Len(SliceOf(n)), j \in 1..Len(SliceOf(o)) :
                /\ IsGeneralRecord(SliceOf(n)[k])
                /\ SliceOf(n)[k].level = LevelError
                /\ IsErrorRecord(SliceOf(o)[j])
                /\ SliceOf(o)[j].timestamp = SliceOf(n)[k].timestamp

\* The last identifier of a class path that matches [A-Za-z0-9]+Exception.
RECURSIVE TrailingCore(_)
TrailingCore(path) ==
    IF path = <<>> THEN None
    ELSE IF IdentMatches(path[Len(path)]) THEN Some(path[Len(path)].stem)
    ELSE TrailingCore(SubSeq(path, 1, Len(path) - 1))

\* C25 (as claimed): the core exception of every row of the stored error
\* table, the key of all grouping, is the trailing identifier of the raw
\* exception type that matches [A-Za-z0-9]+Exception: BarException for
\* a.FooException.BarException.
C25_TrailingIdentifier ==
    IsSome(analysis_results)
        => \A i \in 1..Len(analysis_results.val) :
              analysis_results.val[i].core_exception
                 = TrailingCore(analysis_results.val[i].exception_type.val)

====
